---- MODULE Spec2Model ----
(***************************************************************************)
(* Model of the article examiner (articleexamination.py, article.py,       *)
(* wcutil.py): a directory of Markdown files is scanned, the links of the  *)
(* files whose modification time advanced are re-parsed, the link graph is *)
(* updated and the floating / missing lists are recomputed and pickled to  *)
(* the directory's control file.                                           *)
(*                                                                         *)
(* Text is modelled as sequences of one-character strings, lists as        *)
(* sequences, the articles dictionary as a sequence of Article records in  *)
(* insertion order (a Python dict keeps insertion order).                  *)
(***************************************************************************)
EXTENDS Integers, Sequences, FiniteSets, TLC

VARIABLES
    disk,      \* the directory: file name -> NoFile or [mtime, content]
    control,   \* the pickled examiner in aep-control.pickle, or NoControl
    now,       \* the clock that stamps file writes and log messages
    self,      \* the ArticleExaminer object of the current / last run
    pc,        \* "idle" between runs, "constructed" inside one
    outcome,   \* how the last run ended: "none", "ok", "error"
    runs,      \* number of runs started
    budget,    \* number of file writes / deletions the environment has left
    order,     \* the order in which the file system enumerates the names
    hist,      \* observations of the run: what it loaded, read and called
    line       \* the line of text handed to get_all_links_in_text when the
               \* parsing of one line is examined on its own

vars ==
    <<disk, control, now, self, pc, outcome, runs, budget, order, hist, line>>

----------------------------------------------------------------------------
(* Bounds *)

MaxRuns == 2

MaxEdits == 1

----------------------------------------------------------------------------
(* Text *)

a_md == <<"a", ".", "m", "d">>

b_md == <<"b", ".", "m", "d">>

c_md == <<"c", ".", "m", "d">>

pic_png == <<"p", ".", "p", "n", "g">>

Names == {a_md, b_md, c_md}

md_token == <<".", "m", "d">>

\* The backquote character; the token "BQ" stands for it in model text.
Backquote == "BQ"

fence_token == <<Backquote, Backquote, Backquote>>

control_file_name ==
    <<"a", "e", "p", "-", "c", "o", "n", "t", "r", "o", "l", ".",
      "p", "i", "c", "k", "l", "e">>

Whitespace == {" ", "\t", "\n", "\r"}

\* Python: token in text
TextContains(text, token) ==
    \E i \in 1..(Len(text) - Len(token) + 1) :
        SubSeq(text, i, i + Len(token) - 1) = token

\* Python: x in list
InList(x, list) == \E i \in 1..Len(list) : list[i] = x

\* Python: list.remove(x), which removes the first occurrence
ListRemove(list, x) ==
    LET i == CHOOSE k \in 1..Len(list) :
                 list[k] = x /\ \A m \in 1..(k - 1) : list[m] # x
    IN SubSeq(list, 1, i - 1) \o SubSeq(list, i + 1, Len(list))

ListSet(list) == {list[i] : i \in 1..Len(list)}

text_has_paths(text) == InList("/", text) \/ InList("\\", text)

tail_matches_token(text, token) ==
    /\ Len(token) > 0
    /\ (IF Len(text) <= Len(token) THEN text
        ELSE SubSeq(text, Len(text) - Len(token) + 1, Len(text))) = token

check_text_is_md_file_name(text) == tail_matches_token(text, md_token)

\* Mutant: the test for path delimiters is left out
check_text_is_local_md_file_name_anywhere(text) ==
    check_text_is_md_file_name(text)

check_text_is_local_md_file_name(text) ==
    IF text_has_paths(text) THEN FALSE ELSE check_text_is_md_file_name(text)

\* The position of the first ")" at or after position i of text, 0 if none.
FirstClose(text, i) ==
    IF \E k \in i..Len(text) : text[k] = ")"
    THEN CHOOSE k \in i..Len(text) :
             text[k] = ")" /\ \A m \in i..(k - 1) : text[m] # ")"
    ELSE 0

\* re.compile(r"\]\s?\([^\)]*\)"): the last position of the match that
\* starts at position i of text, 0 if there is no match at i.
MatchEnd(text, i) ==
    IF text[i] # "]" THEN 0
    ELSE LET open ==
                 IF /\ i + 2 <= Len(text)
                    /\ text[i + 1] \in Whitespace
                    /\ text[i + 2] = "("
                 THEN i + 2
                 ELSE IF i + 1 <= Len(text) /\ text[i + 1] = "("
                      THEN i + 1
                      ELSE 0
         IN IF open = 0 THEN 0 ELSE FirstClose(text, open + 1)

\* regex.findall(text): the non-overlapping matches, left to right
RECURSIVE FindAllFrom(_, _)
FindAllFrom(text, i) ==
    IF i > Len(text) THEN <<>>
    ELSE LET e == MatchEnd(text, i)
         IN IF e = 0 THEN FindAllFrom(text, i + 1)
            ELSE <<SubSeq(text, i, e)>> \o FindAllFrom(text, e + 1)

md_link_regular_expression(text) == FindAllFrom(text, 1)

\* match.split("(")[1][:-1]
LinkOfMatch(match) ==
    LET first == CHOOSE k \in 1..Len(match) :
                     match[k] = "(" /\ \A m \in 1..(k - 1) : match[m] # "("
        stop == IF \E k \in (first + 1)..Len(match) : match[k] = "("
                THEN CHOOSE k \in (first + 1)..Len(match) :
                         /\ match[k] = "("
                         /\ \A m \in (first + 1)..(k - 1) : match[m] # "("
                ELSE Len(match) + 1
        piece == SubSeq(match, first + 1, stop - 1)
    IN SubSeq(piece, 1, Len(piece) - 1)

----------------------------------------------------------------------------
(* Article (article.py) *)

\* Mutant: a new article is stamped as if its file had been read
Article_stamped(file_name, exists) ==
    [name |-> file_name, last_modified |-> 1, has_existing_file |-> exists,
     md_links |-> <<>>, linked_from |-> <<>>, all_links |-> <<>>]

Article(file_name, exists) ==
    [name |-> file_name, last_modified |-> 0, has_existing_file |-> exists,
     md_links |-> <<>>, linked_from |-> <<>>, all_links |-> <<>>]

\* get_non_md_links, lines 58-60: all_links from position i on
RECURSIVE NonMdLinksFrom(_, _)
NonMdLinksFrom(art, i) ==
    IF i > Len(art.all_links) THEN <<>>
    ELSE (IF ~InList(art.all_links[i], art.md_links)
          THEN <<art.all_links[i]>>
          ELSE <<>>) \o NonMdLinksFrom(art, i + 1)

\* Mutant: the links to Markdown files are not left out
get_non_md_links_all(art) == art.all_links

get_non_md_links(art) == NonMdLinksFrom(art, 1)

\* Mutant: the link is appended whether or not it is already listed
add_link_repeated(art, link) ==
    [art |-> [art EXCEPT !.all_links = Append(@, link)], ret |-> TRUE]

add_link(art, link) ==
    IF ~InList(link, art.all_links)
    THEN [art |-> [art EXCEPT !.all_links = Append(@, link)], ret |-> TRUE]
    ELSE [art |-> art, ret |-> FALSE]

remove_link(art, link) ==
    IF art.all_links # <<>> /\ InList(link, art.all_links)
    THEN [art |-> [art EXCEPT !.all_links = ListRemove(@, link)],
          ret |-> TRUE]
    ELSE [art |-> art, ret |-> FALSE]

\* Mutant: the link is appended whether or not it is already listed
add_md_link_to_repeated(art, md_file_name) ==
    [art |-> [art EXCEPT !.md_links = Append(@, md_file_name)], ret |-> TRUE]

add_md_link_to(art, md_file_name) ==
    IF ~InList(md_file_name, art.md_links)
    THEN [art |-> [art EXCEPT !.md_links = Append(@, md_file_name)],
          ret |-> TRUE]
    ELSE [art |-> art, ret |-> FALSE]

\* Mutant: the membership test is inverted, the linker is never recorded
add_md_link_from_inverted(art, md_file_name) ==
    IF InList(md_file_name, art.linked_from)
    THEN [art EXCEPT !.linked_from = Append(@, md_file_name)]
    ELSE art

add_md_link_from(art, md_file_name) ==
    IF ~InList(md_file_name, art.linked_from)
    THEN [art EXCEPT !.linked_from = Append(@, md_file_name)]
    ELSE art

remove_md_link_to(art, md_file_name) ==
    IF InList(md_file_name, art.md_links)
    THEN [art EXCEPT !.md_links = ListRemove(@, md_file_name)]
    ELSE art

is_not_linked_to(art) == Len(art.linked_from) = 0

is_not_written(art) == ~art.has_existing_file

\* Mutant: the signal to delete is given although the file exists
remove_md_link_from_unwritten(art, md_file_name) ==
    IF InList(md_file_name, art.linked_from)
    THEN LET next == [art EXCEPT !.linked_from = ListRemove(@, md_file_name)]
         IN [art |-> next, ret |-> is_not_linked_to(next)]
    ELSE [art |-> art, ret |-> FALSE]

\* Mutant: the link is removed but the signal to delete is never given
remove_md_link_from_silent(art, md_file_name) ==
    IF InList(md_file_name, art.linked_from)
    THEN [art |-> [art EXCEPT !.linked_from = ListRemove(@, md_file_name)],
          ret |-> FALSE]
    ELSE [art |-> art, ret |-> FALSE]

remove_md_link_from(art, md_file_name) ==
    IF InList(md_file_name, art.linked_from)
    THEN LET next == [art EXCEPT !.linked_from = ListRemove(@, md_file_name)]
         IN [art |-> next,
             ret |-> is_not_linked_to(next) /\ is_not_written(next)]
    ELSE [art |-> art, ret |-> FALSE]

----------------------------------------------------------------------------
(* The articles dictionary: Article records in insertion order *)

Keys(articles) == {articles[i].name : i \in 1..Len(articles)}

KeyIndex(articles, key) ==
    CHOOSE i \in 1..Len(articles) : articles[i].name = key

\* articles[key]
Get(articles, key) == articles[KeyIndex(articles, key)]

\* articles[key] = art  (a new key is appended, an old one keeps its place)
Put(articles, key, art) ==
    IF key \in Keys(articles)
    THEN [articles EXCEPT ![KeyIndex(articles, key)] = art]
    ELSE Append(articles, art)

\* del articles[key]
Del(articles, key) ==
    LET i == KeyIndex(articles, key)
    IN SubSeq(articles, 1, i - 1) \o SubSeq(articles, i + 1, Len(articles))

----------------------------------------------------------------------------
(* ArticleExaminer (articleexamination.py) *)

NoFile == [mtime |-> 0, content |-> 0]

NoControl == [saved |-> FALSE]

Entry(t, kind, src, dst, n) ==
    [time |-> t, kind |-> kind, src |-> src, dst |-> dst, n |-> n]

\* Mutant: the log keeps the latest message only
log_latest(s, t, kind, src, dst, n) ==
    [s EXCEPT !.log_archive = <<Entry(t, kind, src, dst, n)>>]

\* self.log(core_message): the message is stamped and appended
log(s, t, kind, src, dst, n) ==
    [s EXCEPT !.log_archive = Append(@, Entry(t, kind, src, dst, n))]

\* ArticleExaminer.__init__ up to the call of set_directory_path
NewExaminer(flags) ==
    [flag |-> flags, inside_of_code_block |-> FALSE, md_file_list |-> <<>>,
     articles |-> <<>>, floating_articles |-> <<>>,
     missing_articles |-> <<>>, log_archive |-> <<>>]

\* Mutant: the log is left out of what is pickled
Pickle_unlogged(s) ==
    [saved |-> TRUE, articles |-> s.articles,
     floating_articles |-> s.floating_articles,
     missing_articles |-> s.missing_articles,
     log_archive |-> <<>>]

\* pickle.dump(self) / pickle.load: the attributes set_directory_path reads
Pickle(s) ==
    [saved |-> TRUE, articles |-> s.articles,
     floating_articles |-> s.floating_articles,
     missing_articles |-> s.missing_articles,
     log_archive |-> s.log_archive]

\* The control file after open(control_path, "wb") and before pickle.dump
\* has written all of the pickle: empty or cut short
Truncated == [saved |-> TRUE, truncated |-> TRUE]

\* pickle.load finds a whole pickle of an examiner
CanUnpickle(file) == DOMAIN file = DOMAIN Pickle(NewExaminer({}))

\* Mutant: a file that cannot be unpickled is taken for an empty examiner
deserialize_control_file_fallback(file) ==
    IF CanUnpickle(file)
    THEN [raised |-> FALSE, new_article_examiner |-> file]
    ELSE [raised |-> FALSE,
          new_article_examiner |-> Pickle(NewExaminer({}))]

\* deserialize_control_file: pickle.load raises on a file that holds no
\* whole pickle, and the exception leaves set_directory_path and __init__
deserialize_control_file(file) ==
    IF CanUnpickle(file)
    THEN [raised |-> FALSE, new_article_examiner |-> file]
    ELSE [raised |-> TRUE, new_article_examiner |-> NoControl]

\* set_directory_path, lines 88-89: the control file is read and the read
\* raises
LoadRaises(s, full_file_list, file) ==
    /\ "NOCACHE" \notin s.flag
    /\ InList(control_file_name, full_file_list)
    /\ deserialize_control_file(file).raised

\* Mutant: the control file is found but not incorporated
LoadControl_ignored(s, full_file_list, file, t) == s

\* Mutant: the control file is incorporated whatever the flags say
LoadControl_always(s, full_file_list, file, t) ==
    IF /\ InList(control_file_name, full_file_list)
       /\ ~deserialize_control_file(file).raised
    THEN LET deserialized == deserialize_control_file(file)
                                 .new_article_examiner
         IN log([s EXCEPT !.articles = deserialized.articles,
                          !.floating_articles =
                              deserialized.floating_articles,
                          !.missing_articles = deserialized.missing_articles,
                          !.log_archive = deserialized.log_archive],
                t, "loaded", <<>>, <<>>, Len(deserialized.articles))
    ELSE s

\* set_directory_path, lines 88-95: incorporate the control file (defined
\* when ~LoadRaises)
LoadControl(s, full_file_list, file, t) ==
    IF "NOCACHE" \notin s.flag /\ InList(control_file_name, full_file_list)
    THEN LET deserialized == deserialize_control_file(file)
                                 .new_article_examiner
         IN log([s EXCEPT !.articles = deserialized.articles,
                          !.floating_articles =
                              deserialized.floating_articles,
                          !.missing_articles = deserialized.missing_articles,
                          !.log_archive = deserialized.log_archive],
                t, "loaded", <<>>, <<>>, Len(deserialized.articles))
    ELSE s

\* Mutant: a file that disappeared keeps its article flagged as existing
UpdateExistingAt_kept(s, i, t) ==
    LET article == s.articles[i]
    IN IF InList(article.name, s.md_file_list) /\ ~article.has_existing_file
       THEN log([s EXCEPT !.articles[i].has_existing_file = TRUE],
                t, "+ existing", article.name, <<>>, 0)
       ELSE s

\* Mutant: the disappearance of a file is flagged but not logged
UpdateExistingAt_unlogged(s, i, t) ==
    LET article == s.articles[i]
    IN IF InList(article.name, s.md_file_list)
       THEN IF ~article.has_existing_file
            THEN log([s EXCEPT !.articles[i].has_existing_file = TRUE],
                     t, "+ existing", article.name, <<>>, 0)
            ELSE s
       ELSE [s EXCEPT !.articles[i].has_existing_file = FALSE]

\* set_directory_path, lines 102-110: the article at position i
UpdateExistingAt(s, i, t) ==
    LET article == s.articles[i]
    IN IF InList(article.name, s.md_file_list)
       THEN IF ~article.has_existing_file
            THEN log([s EXCEPT !.articles[i].has_existing_file = TRUE],
                     t, "+ existing", article.name, <<>>, 0)
            ELSE s
       ELSE IF article.has_existing_file
            THEN log([s EXCEPT !.articles[i].has_existing_file = FALSE],
                     t, "- existing", article.name, <<>>, 0)
            ELSE s

\* set_directory_path, lines 101-110: the articles from position i on
RECURSIVE UpdateExisting(_, _, _)
UpdateExisting(s, i, t) ==
    IF i > Len(s.articles) THEN s
    ELSE UpdateExisting(UpdateExistingAt(s, i, t), i + 1, t)

\* Mutant: no article is made for a file that has none
PrepareArticles_none(s, i) == s

\* Mutant: every listed file gets a new article, known or not
RECURSIVE PrepareArticles_fresh(_, _)
PrepareArticles_fresh(s, i) ==
    IF i > Len(s.md_file_list) THEN s
    ELSE PrepareArticles_fresh(
             [s EXCEPT !.articles =
                  Put(@, s.md_file_list[i],
                      Article(s.md_file_list[i], TRUE))],
             i + 1)

\* set_directory_path, lines 117-122: the files from position i on
RECURSIVE PrepareArticles(_, _)
PrepareArticles(s, i) ==
    IF i > Len(s.md_file_list) THEN s
    ELSE LET md_file == s.md_file_list[i]
         IN IF md_file \notin Keys(s.articles)
            THEN PrepareArticles(
                     [s EXCEPT !.articles =
                          Put(@, md_file, Article(md_file, TRUE))],
                     i + 1)
            ELSE PrepareArticles(s, i + 1)

set_directory_path(s, full_file_list, file, t) ==
    LET loaded == LoadControl(s, full_file_list, file, t)
        listed == [loaded EXCEPT !.md_file_list =
                       SelectSeq(full_file_list, check_text_is_md_file_name)]
    IN PrepareArticles(UpdateExisting(listed, 1, t), 1)

add_link_between_articles(s, source_name, destination_name, t) ==
    LET s1 == IF destination_name \notin Keys(s.articles)
              THEN log([s EXCEPT !.articles =
                            Put(@, destination_name,
                                Article(destination_name, FALSE))],
                       t, "+ article", destination_name, <<>>, 0)
              ELSE s
        added == add_md_link_to(Get(s1.articles, source_name),
                                destination_name)
        s2 == [s1 EXCEPT !.articles = Put(@, source_name, added.art)]
    IN IF added.ret
       THEN log([s2 EXCEPT !.articles =
                     Put(@, destination_name,
                         add_md_link_from(Get(s2.articles, destination_name),
                                          source_name))],
                t, "+ md_link", source_name, destination_name, 0)
       ELSE s2

\* remove_link_between_articles raises KeyError when articles has no entry
\* for the destination.
RemoveRaises(s, source_name, destination_name) ==
    \/ source_name \notin Keys(s.articles)
    \/ destination_name \notin Keys(s.articles)

\* Mutant: the removal is logged and returned but the entry is not deleted
remove_link_between_articles_kept(s, source_name, destination_name, t) ==
    LET s1 == log([s EXCEPT !.articles =
                       Put(@, source_name,
                           remove_md_link_to(Get(s.articles, source_name),
                                             destination_name))],
                  t, "- md_link", source_name, destination_name, 0)
        removed == remove_md_link_from(Get(s1.articles, destination_name),
                                       source_name)
        s2 == [s1 EXCEPT !.articles = Put(@, destination_name, removed.art)]
    IN IF removed.ret
       THEN [s |-> log(s2, t, "- article", destination_name, <<>>, 0),
             ret |-> destination_name]
       ELSE [s |-> s2, ret |-> <<>>]

\* Mutant: a destination without file and linkers is deleted whether or not
\* the source was among its linkers
remove_link_between_articles_eager(s, source_name, destination_name, t) ==
    LET s1 == log([s EXCEPT !.articles =
                       Put(@, source_name,
                           remove_md_link_to(Get(s.articles, source_name),
                                             destination_name))],
                  t, "- md_link", source_name, destination_name, 0)
        removed == remove_md_link_from(Get(s1.articles, destination_name),
                                       source_name)
        s2 == [s1 EXCEPT !.articles = Put(@, destination_name, removed.art)]
    IN IF is_not_linked_to(removed.art) /\ is_not_written(removed.art)
       THEN [s |-> log([s2 EXCEPT !.articles = Del(@, destination_name)],
                       t, "- article", destination_name, <<>>, 0),
             ret |-> destination_name]
       ELSE [s |-> s2, ret |-> <<>>]

\* Defined when ~RemoveRaises: the examiner after the call and its return
\* value (the removed file name; the empty text stands for False)
remove_link_between_articles(s, source_name, destination_name, t) ==
    LET s1 == log([s EXCEPT !.articles =
                       Put(@, source_name,
                           remove_md_link_to(Get(s.articles, source_name),
                                             destination_name))],
                  t, "- md_link", source_name, destination_name, 0)
        removed == remove_md_link_from(Get(s1.articles, destination_name),
                                       source_name)
        s2 == [s1 EXCEPT !.articles = Put(@, destination_name, removed.art)]
    IN IF removed.ret
       THEN [s |-> log([s2 EXCEPT !.articles = Del(@, destination_name)],
                       t, "- article", destination_name, <<>>, 0),
             ret |-> destination_name]
       ELSE [s |-> s2, ret |-> <<>>]

\* get_all_links_in_text, lines 226-233: the matches from position i on
RECURSIVE AddMatches(_, _, _, _, _)
AddMatches(s, matches, i, file_name, t) ==
    IF i > Len(matches) THEN s
    ELSE LET link == LinkOfMatch(matches[i])
             art == add_link(Get(s.articles, file_name), link).art
         IN AddMatches(
                log([s EXCEPT !.articles = Put(@, file_name, art)],
                    t, "+ link", file_name, link, 0),
                matches, i + 1, file_name, t)

\* Mutant: the links of the line are considered before the flag is flipped
get_all_links_in_text_late(s, line_of_text, file_name, t) ==
    LET s1 == IF ~s.inside_of_code_block
              THEN AddMatches(s, md_link_regular_expression(line_of_text), 1,
                              file_name, t)
              ELSE s
    IN IF TextContains(line_of_text, fence_token)
       THEN [s1 EXCEPT !.inside_of_code_block = ~@]
       ELSE s1

get_all_links_in_text(s, line_of_text, file_name, t) ==
    LET s1 == IF TextContains(line_of_text, fence_token)
              THEN [s EXCEPT !.inside_of_code_block = ~@]
              ELSE s
    IN IF ~s1.inside_of_code_block
       THEN AddMatches(s1, md_link_regular_expression(line_of_text), 1,
                       file_name, t)
       ELSE s1

\* check_articles, lines 186-190: the lines of the file from position i on
RECURSIVE ReadLines(_, _, _, _, _)
ReadLines(s, text_file, i, file_name, t) ==
    IF i > Len(text_file) THEN s
    ELSE ReadLines(get_all_links_in_text(s, text_file[i], file_name, t),
                   text_file, i + 1, file_name, t)

\* check_articles, lines 202-205: old_all_links from position i on
RECURSIVE DropOldLinks(_, _, _, _, _)
DropOldLinks(s, old_all_links, i, file_name, t) ==
    IF i > Len(old_all_links) THEN s
    ELSE LET link == old_all_links[i]
             article == Get(s.articles, file_name)
         IN IF ~InList(link, article.all_links)
            THEN DropOldLinks(
                     log([s EXCEPT !.articles =
                              Put(@, file_name,
                                  remove_link(article, link).art)],
                         t, "- link", file_name, link, 0),
                     old_all_links, i + 1, file_name, t)
            ELSE DropOldLinks(s, old_all_links, i + 1, file_name, t)

\* summarize_md_issues_in, lines 245-251: the articles from position i on
RECURSIVE Classify(_, _)
Classify(s, i) ==
    IF i > Len(s.articles) THEN s
    ELSE LET article == s.articles[i]
             s1 == IF is_not_linked_to(article)
                   THEN [s EXCEPT !.floating_articles =
                             Append(@, article.name)]
                   ELSE s
             s2 == IF is_not_written(article)
                   THEN [s1 EXCEPT !.missing_articles =
                             Append(@, article.name)]
                   ELSE s1
         IN Classify(s2, i + 1)

----------------------------------------------------------------------------
(* The directory *)

\* A line "[x](target)"
LinkLine(target) == <<"[", "x", "]", "(">> \o target \o <<")">>

\* The file contents the environment writes, as lists of lines
ContentTable ==
    << <<>>,
       <<LinkLine(a_md)>>,
       <<LinkLine(b_md)>>,
       <<LinkLine(pic_png) \o LinkLine(b_md) \o LinkLine(c_md)>>,
       <<fence_token, LinkLine(b_md)>> >>

Contents == 1..Len(ContentTable)

IsFile(f) == disk[f].mtime > 0

\* The orders in which a file system may enumerate the Markdown files
Orders ==
    {l \in [1..Cardinality(Names) -> Names] :
         \A i, j \in DOMAIN l : i # j => l[i] # l[j]}

\* directory_path.iterdir(): the names of the entries, the Markdown files
\* in the order of the file system (the place of the control file among
\* them is immaterial: the code only asks whether it is listed)
iterdir ==
    SelectSeq(order, IsFile)
        \o (IF control.saved THEN <<control_file_name>> ELSE <<>>)

\* pathlib.Path(article.path).stat().st_mtime
st_mtime(f) == disk[f].mtime

\* The content of a file that cannot be read (no permission, bytes that are
\* no UTF-8 text)
Unreadable == 0

\* open(article.path) or the reading of the lines raises
ReadRaises(f) == disk[f].content = Unreadable

\* open(article.path): the lines of the file (defined when ~ReadRaises)
FileLines(f) == ContentTable[disk[f].content]

----------------------------------------------------------------------------
(* check_articles and summarize_md_issues_in *)

\* What check_articles threads through its loops: the examiner, whether a
\* KeyError was raised, and the observations (files read, the value of
\* inside_of_code_block when the first line of each was handed to
\* get_all_links_in_text, calls made).
Frame(s) ==
    [s |-> s, raised |-> FALSE, reads |-> [f \in Names |-> 0],
     fenced |-> [f \in Names |-> FALSE], calls |-> <<>>]

Call(op, s, source_name, destination_name) ==
    [op |-> op, before |-> s, src |-> source_name,
     dst |-> destination_name]

\* check_articles, lines 192-194: all_links from position i on
RECURSIVE AddMdLinks(_, _, _, _, _)
AddMdLinks(fr, all_links, i, file_name, t) ==
    IF i > Len(all_links) THEN fr
    ELSE LET link == all_links[i]
         IN IF check_text_is_local_md_file_name(link)
            THEN AddMdLinks(
                     [fr EXCEPT
                        !.s = add_link_between_articles(@, file_name, link,
                                                        t),
                        !.calls = Append(@, Call("add", fr.s, file_name,
                                                 link))],
                     all_links, i + 1, file_name, t)
            ELSE AddMdLinks(fr, all_links, i + 1, file_name, t)

\* check_articles, lines 199-201: old_md_links from position i on
RECURSIVE RemoveOldMdLinks(_, _, _, _, _)
RemoveOldMdLinks(fr, old_md_links, i, file_name, t) ==
    IF i > Len(old_md_links) \/ fr.raised THEN fr
    ELSE LET link == old_md_links[i]
             article == Get(fr.s.articles, file_name)
         IN IF ~InList(link, article.md_links)
            THEN IF RemoveRaises(fr.s, article.name, link)
                 THEN [fr EXCEPT !.raised = TRUE]
                 ELSE RemoveOldMdLinks(
                          [fr EXCEPT
                             !.s = remove_link_between_articles(
                                       @, article.name, link, t).s,
                             !.calls = Append(@, Call("remove", fr.s,
                                                      article.name, link))],
                          old_md_links, i + 1, file_name, t)
            ELSE RemoveOldMdLinks(fr, old_md_links, i + 1, file_name, t)

\* Mutant: a file as old as the stored time stamp counts as changed
FileChanged_or_equal(file_last_modified, article) ==
    file_last_modified >= article.last_modified

\* check_articles, line 178: only update links if the file has changed
FileChanged(file_last_modified, article) ==
    file_last_modified > article.last_modified

\* Mutant: the failure of the read is swallowed, the article stays reset
ReadFailure_swallowed(fr, file_name, reset) ==
    [fr EXCEPT !.s.articles = Put(@, file_name, reset)]

\* check_articles, lines 181-188: the lists of the article have been reset
\* when the read raises, and the exception leaves check_articles
ReadFailure(fr, file_name, reset) ==
    [fr EXCEPT !.raised = TRUE, !.s.articles = Put(@, file_name, reset)]

\* check_articles, lines 172-205: one turn of the loop over md_file_list
CheckArticle(fr, file_name, t) ==
    IF file_name \notin Keys(fr.s.articles)
    THEN [fr EXCEPT !.raised = TRUE]
    ELSE
    LET found == Get(fr.s.articles, file_name)
        article == IF is_not_written(found)
                   THEN [found EXCEPT !.has_existing_file = TRUE]
                   ELSE found
        file_last_modified == st_mtime(file_name)
    IN IF FileChanged(file_last_modified, article)
       THEN LET old_all_links == article.all_links
                old_md_links == article.md_links
                reset == [article EXCEPT !.all_links = <<>>,
                                         !.md_links = <<>>]
                read == ReadLines(
                            [fr.s EXCEPT !.articles =
                                 Put(@, file_name, reset)],
                            FileLines(file_name), 1, file_name, t)
                added == AddMdLinks(
                             [fr EXCEPT !.s = read,
                                        !.reads[file_name] = @ + 1,
                                        !.fenced[file_name] =
                                            fr.s.inside_of_code_block],
                             Get(read.articles, file_name).all_links, 1,
                             file_name, t)
                stamped == [added EXCEPT !.s.articles =
                                Put(@, file_name,
                                    [Get(added.s.articles, file_name) EXCEPT
                                        !.last_modified =
                                            st_mtime(file_name)])]
                removed == RemoveOldMdLinks(stamped, old_md_links, 1,
                                            file_name, t)
            IN IF ReadRaises(file_name)
               THEN ReadFailure(fr, file_name, reset)
               ELSE IF removed.raised THEN removed
                    ELSE [removed EXCEPT !.s =
                              DropOldLinks(@, old_all_links, 1, file_name,
                                           t)]
       ELSE [fr EXCEPT !.s.articles = Put(@, file_name, article)]

\* check_articles: md_file_list from position i on
RECURSIVE CheckFrom(_, _, _)
CheckFrom(fr, i, t) ==
    IF i > Len(fr.s.md_file_list) \/ fr.raised THEN fr
    ELSE CheckFrom(CheckArticle(fr, fr.s.md_file_list[i], t), i + 1, t)

check_articles(s, t) == CheckFrom(Frame(s), 1, t)

\* Mutant: the lists are not emptied before they are compiled
Summary_appended(s) == Classify(s, 1)

\* summarize_md_issues_in, lines 245-251, on the examiner check_articles
\* left
Summary(s) ==
    Classify([s EXCEPT !.missing_articles = <<>>,
                       !.floating_articles = <<>>], 1)

----------------------------------------------------------------------------
(* The state machine *)

NoHist ==
    [loaded |-> NoControl, begin |-> NewExaminer({}),
     prev |-> NewExaminer({}), clean |-> FALSE, dirty |-> FALSE,
     reads |-> [f \in Names |-> 0], fenced |-> [f \in Names |-> FALSE],
     calls |-> <<>>, failed |-> "none"]

Init ==
    /\ disk \in [Names -> {NoFile}
                     \cup [mtime : {1}, content : Contents]]
    /\ control = NoControl
    /\ now = 1
    /\ self = NewExaminer({})
    /\ pc = "idle"
    /\ outcome = "none"
    /\ runs = 0
    /\ budget = MaxEdits
    /\ order \in Orders
    /\ hist = NoHist
    /\ line = <<>>

\* Between two runs the environment writes a file (new, changed or only
\* touched) ...
WriteFile(f, c) ==
    /\ pc = "idle"
    /\ runs > 0
    /\ budget > 0
    /\ disk[f] # [mtime |-> now, content |-> c]
    /\ disk' = [disk EXCEPT ![f] = [mtime |-> now, content |-> c]]
    /\ budget' = budget - 1
    /\ hist' = [hist EXCEPT !.dirty = TRUE]
    /\ UNCHANGED <<control, now, self, pc, outcome, runs, order, line>>

\* ... or deletes one
DeleteFile(f) ==
    /\ pc = "idle"
    /\ runs > 0
    /\ budget > 0
    /\ IsFile(f)
    /\ disk' = [disk EXCEPT ![f] = NoFile]
    /\ budget' = budget - 1
    /\ hist' = [hist EXCEPT !.dirty = TRUE]
    /\ UNCHANGED <<control, now, self, pc, outcome, runs, order, line>>

\* aep.py line 88: ArticleExaminer(path, flags), whose __init__ ends with
\* set_directory_path.  An exception of pickle.load ends the run.
ConstructWith(flags) ==
    /\ pc = "idle"
    /\ runs < MaxRuns
    /\ IF LoadRaises(NewExaminer(flags), iterdir, control)
       THEN /\ self' = NewExaminer(flags)
            /\ pc' = "idle"
            /\ outcome' = "error"
            /\ now' = now + 1
       ELSE /\ self' = set_directory_path(NewExaminer(flags), iterdir,
                                          control, now)
            /\ pc' = "constructed"
            /\ outcome' = "none"
            /\ now' = now
    /\ runs' = runs + 1
    /\ hist' = [loaded |-> control, begin |-> self', prev |-> self,
                clean |-> (outcome = "ok" /\ ~hist.dirty),
                dirty |-> FALSE,
                reads |-> [f \in Names |-> 0],
                fenced |-> [f \in Names |-> FALSE], calls |-> <<>>,
                failed |-> IF pc' = "idle" THEN "load" ELSE "none"]
    /\ UNCHANGED <<disk, control, budget, order, line>>

\* A run without flags
Construct == ConstructWith({})

\* aep.py line 93: summarize_md_issues_in().  A KeyError raised in
\* check_articles ends the run before anything is classified or saved.
SummarizeMdIssuesIn ==
    /\ pc = "constructed"
    /\ LET fr == check_articles(self, now)
       IN /\ hist' = [hist EXCEPT !.reads = fr.reads, !.fenced = fr.fenced,
                                  !.calls = fr.calls,
                                  !.failed = IF fr.raised THEN "check"
                                             ELSE "none"]
          /\ IF fr.raised
             THEN /\ self' = fr.s
                  /\ outcome' = "error"
                  /\ UNCHANGED control
             ELSE /\ self' = Summary(fr.s)
                  /\ outcome' = "ok"
                  /\ control' = IF "NOCACHE" \notin self.flag
                                THEN Pickle(self')
                                ELSE control
    /\ pc' = "idle"
    /\ now' = now + 1
    /\ UNCHANGED <<disk, runs, budget, order, line>>

Next ==
    \/ \E f \in Names, c \in Contents : WriteFile(f, c)
    \/ \E f \in Names : DeleteFile(f)
    \/ Construct
    \/ SummarizeMdIssuesIn

Spec == Init /\ [][Next]_vars

\* A directory in which every file exists and holds one tracked link, and
\* an environment that makes more changes
MaxEditsLong == 3

InitLong ==
    /\ disk \in [Names -> [mtime : {1}, content : {2, 3}]]
    /\ control = NoControl
    /\ now = 1
    /\ self = NewExaminer({})
    /\ pc = "idle"
    /\ outcome = "none"
    /\ runs = 0
    /\ budget = MaxEditsLong
    /\ order \in Orders
    /\ hist = NoHist
    /\ line = <<>>

SpecLong == InitLong /\ [][Next]_vars

----------------------------------------------------------------------------
(* One Article and the operations of article.py applied to it in any order
   (test_article.py); self is the Article, hist the last operation *)

MaxOps == 4

\* The links handed to add_link and remove_link
LinkValues == {a_md, b_md, pic_png}

\* The file names handed to the md_link operations
FileNames == {a_md, b_md}

Applied(op, arg, ret) ==
    [op |-> op, arg |-> arg, ret |-> ret, before |-> self]

InitArticle ==
    /\ disk = [f \in Names |-> NoFile]
    /\ control = NoControl
    /\ now = 1
    /\ \E exists \in BOOLEAN : self = Article(c_md, exists)
    /\ pc = "article"
    /\ outcome = "none"
    /\ runs = 0
    /\ budget = 0
    /\ order = <<a_md, b_md, c_md>>
    /\ hist = [op |-> "Article", arg |-> c_md, ret |-> FALSE,
               before |-> Article(c_md, FALSE)]
    /\ line = <<>>

\* The frame of every operation on the Article
Operation ==
    /\ pc = "article"
    /\ runs < MaxOps
    /\ runs' = runs + 1
    /\ UNCHANGED <<disk, control, now, pc, outcome, budget, order, line>>

AddLink(link) ==
    /\ Operation
    /\ self' = add_link(self, link).art
    /\ hist' = Applied("add_link", link, add_link(self, link).ret)

RemoveLink(link) ==
    /\ Operation
    /\ self' = remove_link(self, link).art
    /\ hist' = Applied("remove_link", link, remove_link(self, link).ret)

AddMdLinkTo(md_file_name) ==
    /\ Operation
    /\ self' = add_md_link_to(self, md_file_name).art
    /\ hist' = Applied("add_md_link_to", md_file_name,
                       add_md_link_to(self, md_file_name).ret)

AddMdLinkFrom(md_file_name) ==
    /\ Operation
    /\ self' = add_md_link_from(self, md_file_name)
    /\ hist' = Applied("add_md_link_from", md_file_name, FALSE)

RemoveMdLinkTo(md_file_name) ==
    /\ Operation
    /\ self' = remove_md_link_to(self, md_file_name)
    /\ hist' = Applied("remove_md_link_to", md_file_name, FALSE)

RemoveMdLinkFrom(md_file_name) ==
    /\ Operation
    /\ self' = remove_md_link_from(self, md_file_name).art
    /\ hist' = Applied("remove_md_link_from", md_file_name,
                       remove_md_link_from(self, md_file_name).ret)

GetNonMdLinks ==
    /\ Operation
    /\ self' = self
    /\ hist' = Applied("get_non_md_links", <<>>, get_non_md_links(self))

NextArticle ==
    \/ \E link \in LinkValues : AddLink(link)
    \/ \E link \in LinkValues : RemoveLink(link)
    \/ \E md_file_name \in FileNames : AddMdLinkTo(md_file_name)
    \/ \E md_file_name \in FileNames : AddMdLinkFrom(md_file_name)
    \/ \E md_file_name \in FileNames : RemoveMdLinkTo(md_file_name)
    \/ \E md_file_name \in FileNames : RemoveMdLinkFrom(md_file_name)
    \/ GetNonMdLinks

SpecArticle == InitArticle /\ [][NextArticle]_vars

----------------------------------------------------------------------------
(* The script aep.py: the command line, get_target_directories and _main.
   self holds the local names of _main, hist the command line and what the
   run did for each directory *)

MaxArgs == 3

None == "None"

\* aep.py 52-54: the names of the module, never assigned again (_main
\* assigns local names of its own)
aep_flags == None

aep_dbg == None

flag_list == <<"ALLLINKS", "DEBUG", "HISTORY", "NOCACHE", "NONMD", "VERBOSE">>

FlagFarm(list_of_flag_keys) ==
    [keys |-> list_of_flag_keys,
     values |-> [key \in ListSet(list_of_flag_keys) |-> FALSE]]

has_flag(farm, key) == InList(key, farm.keys)

activate(farm, key) ==
    IF has_flag(farm, key) THEN [farm EXCEPT !.values[key] = TRUE] ELSE farm

\* The words of a command line: directories that exist, one that does not,
\* options in either case
WorkingDirectory == "."

Directories == {"wiki1", "wiki2", WorkingDirectory}

Arguments == {"wiki1", "wiki2", "nowhere", "HISTORY", "nocache"}

\* str.upper on the words of the command line
Upper(cl_argument) ==
    IF cl_argument = "nocache" THEN "NOCACHE"
    ELSE IF cl_argument = "wiki1" THEN "WIKI1"
    ELSE IF cl_argument = "wiki2" THEN "WIKI2"
    ELSE IF cl_argument = "nowhere" THEN "NOWHERE"
    ELSE cl_argument

CommandLines ==
    UNION {[1..n -> Arguments] : n \in 0..MaxArgs}

\* get_target_directories, lines 65-72, from argument i on: the names flags
\* and dbg are those of the module
RECURSIVE DecipherFrom(_, _, _, _)
DecipherFrom(args, i, farm, target_directories) ==
    IF i > Len(args)
    THEN [raised |-> "none", flags |-> farm,
          target_directories |-> target_directories]
    ELSE IF farm = None
    THEN [raised |-> "AttributeError", flags |-> farm,
          target_directories |-> target_directories]
    ELSE IF has_flag(farm, Upper(args[i]))
    THEN IF aep_dbg = None
         THEN [raised |-> "TypeError", flags |-> activate(farm, Upper(args[i])),
               target_directories |-> target_directories]
         ELSE DecipherFrom(args, i + 1, activate(farm, Upper(args[i])),
                           target_directories)
    ELSE IF aep_dbg = None
    THEN [raised |-> "TypeError", flags |-> farm,
          target_directories |-> target_directories]
    ELSE DecipherFrom(args, i + 1, farm, Append(target_directories, args[i]))

get_target_directories(args) ==
    LET deciphered == DecipherFrom(args, 1, aep_flags, <<>>)
    IN IF deciphered.raised # "none" THEN deciphered
       ELSE IF Len(deciphered.target_directories) < 1
       THEN IF aep_dbg = None
            THEN [deciphered EXCEPT !.raised = "TypeError"]
            ELSE [deciphered EXCEPT
                      !.target_directories = <<WorkingDirectory>>]
       ELSE deciphered

RanOn(args) ==
    [argv |-> args, raised |-> "none", reported |-> <<>>, printed |-> <<>>,
     scanned |-> <<>>]

InitMain ==
    /\ disk = [f \in Names |-> NoFile]
    /\ control = NoControl
    /\ now = 1
    /\ self = [flags |-> None, debug |-> None, directory_paths |-> <<>>]
    /\ pc = "main"
    /\ outcome = "none"
    /\ runs = 0
    /\ budget = 0
    /\ order = <<a_md, b_md, c_md>>
    /\ \E args \in CommandLines : hist = RanOn(args)
    /\ line = <<>>

\* _main, lines 79-81: the local names
Main ==
    /\ pc = "main"
    /\ self' = [self EXCEPT !.flags = FlagFarm(flag_list), !.debug = FALSE]
    /\ pc' = "get_target_directories"
    /\ UNCHANGED <<disk, control, now, outcome, runs, budget, order, hist,
                   line>>

\* _main, line 86: the call; an exception leaves _main and ends the script
GetTargetDirectories ==
    /\ pc = "get_target_directories"
    /\ LET returned == get_target_directories(hist.argv)
       IN IF returned.raised # "none"
          THEN /\ pc' = "exit"
               /\ outcome' = "error"
               /\ hist' = [hist EXCEPT !.raised = returned.raised]
               /\ self' = self
          ELSE /\ pc' = "directories"
               /\ outcome' = outcome
               /\ hist' = hist
               /\ self' = [self EXCEPT
                      !.directory_paths = returned.target_directories]
    /\ UNCHANGED <<disk, control, now, runs, budget, order, line>>

NextMain == Main \/ GetTargetDirectories

SpecMain == InitMain /\ [][NextMain]_vars

----------------------------------------------------------------------------
(* Runs over a directory in which files can be unreadable *)

ReadContents == {Unreadable, 2, 4}

InitRead ==
    /\ disk \in [Names -> {NoFile} \cup [mtime : {1}, content : ReadContents]]
    /\ control = NoControl
    /\ now = 1
    /\ self = NewExaminer({})
    /\ pc = "idle"
    /\ outcome = "none"
    /\ runs = 0
    /\ budget = MaxEdits
    /\ order \in Orders
    /\ hist = NoHist
    /\ line = <<>>

NextRead ==
    \/ \E f \in Names, c \in ReadContents : WriteFile(f, c)
    \/ Construct
    \/ SummarizeMdIssuesIn

SpecRead == InitRead /\ [][NextRead]_vars

----------------------------------------------------------------------------
(* Runs with and without NOCACHE, the control file written in the two steps
   of serialize_to_control_file *)

FlagSets == {{}, {"NOCACHE"}}

\* summarize_md_issues_in, lines 243-252: the links are updated and the
\* lists compiled; without NOCACHE the examiner is about to be saved
CheckAndClassify ==
    /\ pc = "constructed"
    /\ LET fr == check_articles(self, now)
       IN /\ hist' = [hist EXCEPT !.reads = fr.reads, !.fenced = fr.fenced,
                                  !.calls = fr.calls,
                                  !.failed = IF fr.raised THEN "check"
                                             ELSE "none"]
          /\ IF fr.raised
             THEN /\ self' = fr.s
                  /\ outcome' = "error"
                  /\ pc' = "idle"
                  /\ now' = now + 1
             ELSE /\ self' = Summary(fr.s)
                  /\ IF "NOCACHE" \in self.flag
                     THEN /\ outcome' = "ok"
                          /\ pc' = "idle"
                          /\ now' = now + 1
                     ELSE /\ outcome' = "none"
                          /\ pc' = "saving"
                          /\ now' = now
    /\ UNCHANGED <<disk, control, runs, budget, order, line>>

\* serialize_to_control_file, line 315: open(control_path, "wb") empties the
\* file
OpenControlFile ==
    /\ pc = "saving"
    /\ control' = Truncated
    /\ pc' = "dumping"
    /\ UNCHANGED <<disk, now, self, outcome, runs, budget, order, hist, line>>

\* serialize_to_control_file, line 316: pickle.dump writes the examiner
PickleDump ==
    /\ pc = "dumping"
    /\ control' = Pickle(self)
    /\ pc' = "idle"
    /\ outcome' = "ok"
    /\ now' = now + 1
    /\ UNCHANGED <<disk, self, runs, budget, order, hist, line>>

\* serialize_to_control_file, line 316: pickle.dump raises (an attribute
\* that cannot be pickled, a failed write) or the process is stopped
PickleDumpFails ==
    /\ pc = "dumping"
    /\ pc' = "idle"
    /\ outcome' = "error"
    /\ now' = now + 1
    /\ hist' = [hist EXCEPT !.failed = "dump"]
    /\ UNCHANGED <<disk, control, self, runs, budget, order, line>>

NextStore ==
    \/ \E flags \in FlagSets : ConstructWith(flags)
    \/ CheckAndClassify
    \/ OpenControlFile
    \/ PickleDump
    \/ PickleDumpFails

SpecStore == Init /\ [][NextStore]_vars

----------------------------------------------------------------------------
(* The parsing of one line (check_articles, lines 186-194) on its own *)

MaxLineLen == 6

MaxTargetLen == 4

\* The characters of the link syntax and one other character
SyntaxAlphabet == {"]", "(", ")", " ", "a"}

\* The characters that decide whether a target names a local Markdown file
TargetAlphabet == {"a", ".", "m", "d", "M", "/", "\\"}

TextsUpTo(alphabet, n) == UNION {[1..k -> alphabet] : k \in 0..n}

\* The lines parsed: every text of the link syntax, and every target in a
\* well-formed link that a link to an image follows
Lines ==
    TextsUpTo(SyntaxAlphabet, MaxLineLen)
        \cup {LinkLine(target) \o LinkLine(pic_png) :
                  target \in TextsUpTo(TargetAlphabet, MaxTargetLen)}

\* b.md has been opened for reading in a directory that holds a.md and
\* b.md; earlier lines may have left the examiner inside a code block
InitParse ==
    /\ disk = [f \in Names |->
                  IF f = c_md THEN NoFile ELSE [mtime |-> 1, content |-> 1]]
    /\ control = NoControl
    /\ now = 1
    /\ \E inside \in BOOLEAN :
           self = [set_directory_path(NewExaminer({}), <<a_md, b_md>>,
                                      NoControl, 1)
                       EXCEPT !.inside_of_code_block = inside]
    /\ pc = "open"
    /\ outcome = "none"
    /\ runs = 1
    /\ budget = 0
    /\ order = <<a_md, b_md, c_md>>
    /\ hist = NoHist
    /\ line \in Lines

\* check_articles, lines 188-190: one line of b.md is parsed
GetAllLinksInText ==
    /\ pc = "open"
    /\ self' = get_all_links_in_text(self, line, b_md, now)
    /\ pc' = "read"
    /\ hist' = [hist EXCEPT !.begin = self]
    /\ UNCHANGED <<disk, control, now, outcome, runs, budget, order, line>>

\* check_articles, lines 192-194: the links found are sorted out
AddMdLinksOfArticle ==
    /\ pc = "read"
    /\ LET fr == AddMdLinks(Frame(self), Get(self.articles, b_md).all_links,
                            1, b_md, now)
       IN /\ self' = fr.s
          /\ hist' = [hist EXCEPT !.prev = self, !.calls = fr.calls]
    /\ pc' = "linked"
    /\ UNCHANGED <<disk, control, now, outcome, runs, budget, order, line>>

NextParse == GetAllLinksInText \/ AddMdLinksOfArticle

SpecParse == InitParse /\ [][NextParse]_vars

----------------------------------------------------------------------------
(* The parsing of one line with backquotes (get_all_links_in_text, lines
   217-233) on its own *)

MaxFenceLen == 6

\* The characters that make or break a fence token
FenceAlphabet == {Backquote, "x"}

\* The lines parsed: every text of backquotes and other characters, alone,
\* after a link and before a link
FenceLines ==
    UNION {{text, LinkLine(a_md) \o text, text \o LinkLine(pic_png)} :
               text \in TextsUpTo(FenceAlphabet, MaxFenceLen)}

InitFence ==
    /\ disk = [f \in Names |->
                  IF f = c_md THEN NoFile ELSE [mtime |-> 1, content |-> 1]]
    /\ control = NoControl
    /\ now = 1
    /\ \E inside \in BOOLEAN :
           self = [set_directory_path(NewExaminer({}), <<a_md, b_md>>,
                                      NoControl, 1)
                       EXCEPT !.inside_of_code_block = inside]
    /\ pc = "open"
    /\ outcome = "none"
    /\ runs = 1
    /\ budget = 0
    /\ order = <<a_md, b_md, c_md>>
    /\ hist = NoHist
    /\ line \in FenceLines

SpecFence == InitFence /\ [][NextParse]_vars

----------------------------------------------------------------------------
(* remove_link_between_articles called on the examiner a run left, for any
   two of its articles, linked or not *)

\* Files that are empty or hold a link to b.md
UnlinkContents == {1, 3}

InitUnlink ==
    /\ disk \in [Names -> {NoFile} \cup [mtime : {1},
                                          content : UnlinkContents]]
    /\ control = NoControl
    /\ now = 1
    /\ self = NewExaminer({})
    /\ pc = "idle"
    /\ outcome = "none"
    /\ runs = 0
    /\ budget = MaxEdits
    /\ order = <<a_md, b_md, c_md>>
    /\ hist = NoHist
    /\ line = <<>>

\* The call and what it returned
Returned(call, ret) ==
    [op |-> call.op, before |-> call.before, src |-> call.src,
     dst |-> call.dst, ret |-> ret]

RemoveLinkBetweenArticles(source_name, destination_name) ==
    /\ pc = "idle"
    /\ outcome = "ok"
    /\ ~RemoveRaises(self, source_name, destination_name)
    /\ LET removed == remove_link_between_articles(self, source_name,
                                                   destination_name, now)
       IN /\ self' = removed.s
          /\ hist' = [hist EXCEPT !.calls =
                          <<Returned(Call("remove", self, source_name,
                                          destination_name), removed.ret)>>]
    /\ pc' = "unlinked"
    /\ UNCHANGED <<disk, control, now, outcome, runs, budget, order, line>>

NextUnlink ==
    \/ \E f \in Names : DeleteFile(f)
    \/ Construct
    \/ SummarizeMdIssuesIn
    \/ \E source_name, destination_name \in Names :
           RemoveLinkBetweenArticles(source_name, destination_name)

SpecUnlink == InitUnlink /\ [][NextUnlink]_vars

----------------------------------------------------------------------------
(* Runs between which files are touched: written again with the content
   they have *)

TouchFile(f) ==
    /\ IsFile(f)
    /\ WriteFile(f, disk[f].content)

NextTouch ==
    \/ \E f \in Names : TouchFile(f)
    \/ Construct
    \/ SummarizeMdIssuesIn

SpecTouch == Init /\ [][NextTouch]_vars

----------------------------------------------------------------------------
(* Properties *)

\* A run has completed (check_articles returned, the lists were compiled
\* and the control file was written) and the directory is as the run saw it
Done == pc = "idle" /\ outcome = "ok" /\ ~hist.dirty

Tracked(articles, key) == ListSet(Get(articles, key).md_links)

Inbound(articles, key) == ListSet(Get(articles, key).linked_from)

\* The documents whose md_links hold key
Linkers(articles, key) ==
    {y \in Keys(articles) : key \in Tracked(articles, y)}

Symmetric(articles) ==
    \A x, y \in Keys(articles) :
        y \in Tracked(articles, x) <=> x \in Inbound(articles, y)

LoadedArticles == IF hist.loaded.saved THEN hist.loaded.articles ELSE <<>>

LoadedLog == IF hist.loaded.saved THEN hist.loaded.log_archive ELSE <<>>

\* The log entries the run appended to what it loaded
RunLog ==
    SubSeq(self.log_archive, Len(LoadedLog) + 1, Len(self.log_archive))

Listed == ListSet(self.md_file_list)

\* C1: after every completed run, over any sequence of runs with edits,
\* deletions and creations between them, y is in x.md_links if and only if
\* x is in y.linked_from, for all keys x and y of articles (here: of the
\* examiner the run leaves and of the control file it wrote).
C1_Symmetry ==
    Done => Symmetric(self.articles) /\ Symmetric(control.articles)

\* C2: every remove_link_between_articles(A, B) the run made deleted B and
\* returned B if and only if B.linked_from without A was empty and B had no
\* file; otherwise B stayed and the call returned False.
C2_CascadeDelete ==
    \A i \in 1..Len(hist.calls) :
        LET c == hist.calls[i]
            r == remove_link_between_articles(c.before, c.src, c.dst, 0)
            B == Get(c.before.articles, c.dst)
            pointless == /\ ListSet(B.linked_from) \ {c.src} = {}
                         /\ ~B.has_existing_file
        IN c.op = "remove" =>
               /\ pointless <=>
                      (c.dst \notin Keys(r.s.articles) /\ r.ret = c.dst)
               /\ ~pointless =>
                      /\ c.dst \in Keys(r.s.articles)
                      /\ r.ret = <<>>

\* C2 witness: a run removed the link of the only linker of a document
\* without a file, and the document is gone.
C2_Witness ==
    /\ Done
    /\ \E i \in 1..Len(hist.calls) :
           LET c == hist.calls[i]
           IN /\ c.op = "remove"
              /\ Get(c.before.articles, c.dst).linked_from = <<c.src>>
              /\ ~Get(c.before.articles, c.dst).has_existing_file
              /\ c.dst \notin Keys(self.articles)

\* C3: a run that follows a completed run with no file written or deleted
\* in between compiles the same floating and missing sets and appends
\* nothing to the log but its notice of the loaded control file.
C3_Idempotence ==
    (Done /\ hist.clean) =>
        /\ ListSet(self.floating_articles)
               = ListSet(hist.prev.floating_articles)
        /\ ListSet(self.missing_articles)
               = ListSet(hist.prev.missing_articles)
        /\ LoadedLog = hist.prev.log_archive
        /\ self.log_archive = hist.prev.log_archive \o RunLog
        /\ \A i \in 1..Len(RunLog) : RunLog[i].kind = "loaded"

\* C3 witness: such a second run over a graph with links, a floating and a
\* missing document.
C3_Witness ==
    /\ Done
    /\ hist.clean
    /\ self.floating_articles # <<>>
    /\ self.missing_articles # <<>>
    /\ \E i \in 1..Len(hist.prev.log_archive) :
           hist.prev.log_archive[i].kind = "+ md_link"

\* C4: in a completed run a listed file whose st_mtime is not greater than
\* the stored last_modified was read zero times and its article keeps its
\* all_links, md_links and last_modified; every other listed file was read
\* exactly once.
C4_ChangeDetection ==
    Done =>
        \A f \in Listed :
            LET before == Get(hist.begin.articles, f)
                after == Get(self.articles, f)
            IN IF st_mtime(f) > before.last_modified
               THEN hist.reads[f] = 1
               ELSE /\ hist.reads[f] = 0
                    /\ after.all_links = before.all_links
                    /\ after.md_links = before.md_links
                    /\ after.last_modified = before.last_modified

\* C4 witness: a run that skipped a file with links and read another one.
C4_Witness ==
    /\ Done
    /\ \E f, g \in Listed :
           /\ hist.reads[f] = 0
           /\ Get(self.articles, f).all_links # <<>>
           /\ hist.reads[g] = 1

Classified(s) ==
    /\ ListSet(s.floating_articles)
           = {k \in Keys(s.articles) : Get(s.articles, k).linked_from = <<>>}
    /\ ListSet(s.missing_articles)
           = {k \in Keys(s.articles) :
                  ~Get(s.articles, k).has_existing_file}

\* C5: after every completed run, and in the control file it wrote,
\* floating_articles holds exactly the keys of articles with an empty
\* linked_from and missing_articles exactly the keys without a file.
C5_Classification ==
    /\ Done => Classified(self)
    /\ control.saved => Classified(control)

\* C5 witness: a run after an earlier one that leaves a floating, a missing
\* and a linked document.
C5_Witness ==
    /\ Done
    /\ runs = 2
    /\ self.floating_articles # <<>>
    /\ self.missing_articles # <<>>
    /\ \E k \in Keys(self.articles) :
           Get(self.articles, k).linked_from # <<>>

\* C6: after every completed run every document of missing_articles has at
\* least one inbound link.
C6_MissingIsReferenced ==
    Done =>
        \A k \in ListSet(self.missing_articles) :
            Get(self.articles, k).linked_from # <<>>

Retracted(A, B) ==
    /\ A \in Keys(hist.begin.articles)
    /\ B \in Keys(hist.begin.articles)
    /\ B \in Tracked(hist.begin.articles, A)
    /\ ~IsFile(B)
    /\ Inbound(hist.begin.articles, B) = {A}
    /\ hist.reads[A] = 1
    /\ Linkers(self.articles, B) = {}

\* C7: if A linked to B when the run began, B has no file and A was its
\* only linker, and the run read A and found no link to B, and no other
\* document links to B when the run ends, then B is no key of articles and
\* is in neither list.
C7_Retraction ==
    Done =>
        \A A, B \in Names :
            Retracted(A, B) =>
                /\ B \notin Keys(self.articles)
                /\ B \notin ListSet(self.floating_articles)
                /\ B \notin ListSet(self.missing_articles)

\* C7 witness: the second run of such a sequence; B never was a file.
C7_Witness ==
    /\ Done
    /\ runs = 2
    /\ \E A, B \in Names :
           /\ Retracted(A, B)
           /\ Get(hist.begin.articles, B).last_modified = 0

ExampleDisk ==
    [f \in Names |->
        IF f = a_md THEN [mtime |-> 1, content |-> 3]
        ELSE IF f = c_md THEN [mtime |-> 1, content |-> 2]
        ELSE NoFile]

\* C8: the first run over a.md linking to b.md and c.md linking to a.md,
\* with no b.md, leaves floating = {c.md}, missing = {b.md} and
\* b.md linked from [a.md], in every order of the files.
C8_Example ==
    (Done /\ runs = 1 /\ disk = ExampleDisk) =>
        /\ ListSet(self.floating_articles) = {c_md}
        /\ ListSet(self.missing_articles) = {b_md}
        /\ Get(self.articles, b_md).linked_from = <<a_md>>

\* C8 witness: that run, c.md having been checked before a.md.
C8_Witness ==
    /\ Done
    /\ runs = 1
    /\ disk = ExampleDisk
    /\ self.md_file_list = <<c_md, a_md>>

Vanished(X) ==
    /\ X \in Keys(LoadedArticles)
    /\ Get(LoadedArticles, X).has_existing_file
    /\ ~IsFile(X)
    /\ Linkers(self.articles, X) \ {X} # {}

\* C9: a document that had a file when the control file was written, has
\* none now and is still linked to by another document stays a key of
\* articles through the run, without a file, in missing_articles, and with
\* the linked_from it had (as long as the documents linking to it are the
\* same).
C9_VanishedKept ==
    Done =>
        \A X \in Names :
            Vanished(X) =>
                /\ X \in Keys(hist.begin.articles)
                /\ Get(hist.begin.articles, X).linked_from
                       = Get(LoadedArticles, X).linked_from
                /\ X \in Keys(self.articles)
                /\ ~Get(self.articles, X).has_existing_file
                /\ X \in ListSet(self.missing_articles)
                /\ Linkers(self.articles, X) = Linkers(LoadedArticles, X)
                       => Get(self.articles, X).linked_from
                              = Get(LoadedArticles, X).linked_from

\* C9 witness: a run after the file of a linked document was deleted.
C9_Witness ==
    /\ Done
    /\ \E X \in Names :
           /\ Vanished(X)
           /\ Linkers(self.articles, X) = Linkers(LoadedArticles, X)

ExistenceNotices(entries) ==
    SelectSeq(entries,
              LAMBDA e : e.kind \in {"+ existing", "- existing"})

\* C10: after every completed run a document has_existing_file if and only
\* if its name is in md_file_list, and the run logged one existence notice
\* for each loaded document whose flag changed, of the direction of the
\* change, and no other.
C10_Existence ==
    Done =>
        /\ \A k \in Keys(self.articles) :
               Get(self.articles, k).has_existing_file <=> k \in Listed
        /\ LET notices == ExistenceNotices(RunLog)
               changed(k) ==
                   Get(LoadedArticles, k).has_existing_file # IsFile(k)
           IN /\ \A i, j \in 1..Len(notices) :
                     notices[i].src = notices[j].src => i = j
              /\ \A k \in Keys(LoadedArticles) :
                     /\ (changed(k) /\ IsFile(k))
                            <=> \E i \in 1..Len(notices) :
                                    /\ notices[i].kind = "+ existing"
                                    /\ notices[i].src = k
                     /\ (changed(k) /\ ~IsFile(k))
                            <=> \E i \in 1..Len(notices) :
                                    /\ notices[i].kind = "- existing"
                                    /\ notices[i].src = k
              /\ \A i \in 1..Len(notices) :
                     notices[i].src \in Keys(LoadedArticles)

\* C10 witness: a run that logged the appearance or disappearance of a
\* file and did not read another listed file.
C10_Witness ==
    /\ Done
    /\ ExistenceNotices(RunLog) # <<>>
    /\ \E f \in Listed : hist.reads[f] = 0

IsFenceLine(text_line) == TextContains(text_line, fence_token)

\* The link-like strings of a line: what the regular expression matches
TargetsOf(text_line) ==
    {LinkOfMatch(m) : m \in ListSet(md_link_regular_expression(text_line))}

\* Line i of a document lies inside a fenced block: it is no fence line and
\* an odd number of fence lines of the document precede it
InsideFence(lines, i) ==
    /\ ~IsFenceLine(lines[i])
    /\ Cardinality({k \in 1..(i - 1) : IsFenceLine(lines[k])}) % 2 = 1

\* The link-like strings found only on lines inside fenced blocks
SuppressedTargets(lines) ==
    UNION {TargetsOf(lines[i]) : i \in {k \in 1..Len(lines) :
                                            InsideFence(lines, k)}}
        \ UNION {TargetsOf(lines[i]) : i \in {k \in 1..Len(lines) :
                                                  ~InsideFence(lines, k)}}

\* C11: after a completed run, a link-like string that a document the run
\* read holds only on lines inside a fenced block (an odd number of fence
\* lines of that document precede the line) is in neither all_links nor
\* md_links of the document.
C11_FenceSuppression ==
    Done =>
        \A f \in Listed :
            hist.reads[f] = 1 =>
                \A link \in SuppressedTargets(FileLines(f)) :
                    /\ ~InList(link, Get(self.articles, f).all_links)
                    /\ ~InList(link, Get(self.articles, f).md_links)

\* The all_links a document yields when it is parsed on its own, the fence
\* flag being false before its first line
LinksAlone(f) ==
    Get(ReadLines([NewExaminer({}) EXCEPT !.articles = <<Article(f, TRUE)>>],
                  FileLines(f), 1, f, 0).articles, f).all_links

\* C12: in a completed run inside_of_code_block was false when the first
\* line of each document read was parsed, and the all_links of the document
\* are those it yields when parsed on its own, whatever fence lines the
\* documents parsed before it hold.
C12_FencePerDocument ==
    Done =>
        \A f \in Listed :
            hist.reads[f] = 1 =>
                /\ ~hist.fenced[f]
                /\ Get(self.articles, f).all_links = LinksAlone(f)

\* The content of the file of f links to f itself
LinksToItself(f) == InList(f, LinksAlone(f))

\* C15: after a completed run a document whose file links to the document
\* itself has itself in md_links and in linked_from and is not in
\* floating_articles; and no remove_link_between_articles(f, f) the run
\* made deleted a document that had a file.
C15_SelfLink ==
    Done =>
        /\ \A f \in Listed :
               LinksToItself(f) =>
                   /\ InList(f, Get(self.articles, f).md_links)
                   /\ InList(f, Get(self.articles, f).linked_from)
                   /\ ~InList(f, self.floating_articles)
        /\ \A i \in 1..Len(hist.calls) :
               LET c == hist.calls[i]
               IN (/\ c.op = "remove"
                   /\ c.src = c.dst
                   /\ Get(c.before.articles, c.dst).has_existing_file)
                      => c.dst \in Keys(
                             remove_link_between_articles(
                                 c.before, c.src, c.dst, 0).s.articles)

\* The log entries an operation appended, given the examiner before and
\* after it
Appended(before, after) ==
    SubSeq(after.log_archive, Len(before.log_archive) + 1,
           Len(after.log_archive))

\* C16: for every add_link_between_articles(source, dest) a run made, the
\* call created the article of dest, without a file, and logged it, if and
\* only if articles had no entry for dest; and the same call repeated on the
\* examiner it left changes nothing: no list of any article, no log entry.
C16_AddIdempotent ==
    \A i \in 1..Len(hist.calls) :
        LET c == hist.calls[i]
            once == add_link_between_articles(c.before, c.src, c.dst, 0)
            twice == add_link_between_articles(once, c.src, c.dst, 0)
            created == \E k \in 1..Len(Appended(c.before, once)) :
                           /\ Appended(c.before, once)[k].kind = "+ article"
                           /\ Appended(c.before, once)[k].src = c.dst
        IN c.op = "add" =>
               /\ c.dst \in Keys(once.articles)
               /\ created <=> c.dst \notin Keys(c.before.articles)
               /\ created =>
                      /\ ~Get(once.articles, c.dst).has_existing_file
                      /\ Len(once.articles) = Len(c.before.articles) + 1
               /\ ~created => Len(once.articles) = Len(c.before.articles)
               /\ InList(c.dst, Get(once.articles, c.src).md_links)
               /\ InList(c.src, Get(once.articles, c.dst).linked_from)
               /\ twice = once

\* C16 witness: a completed run made a call that created the destination
\* and a call whose destination was there already.
C16_Witness ==
    /\ Done
    /\ \E i, j \in 1..Len(hist.calls) :
           /\ hist.calls[i].op = "add"
           /\ hist.calls[j].op = "add"
           /\ hist.calls[i].dst \notin Keys(hist.calls[i].before.articles)
           /\ hist.calls[j].dst \in Keys(hist.calls[j].before.articles)

\* The examiner right after the control file is incorporated (lines 88-95)
Restored == LoadControl(NewExaminer({}), <<control_file_name>>, control, now)

TargetAt(text, i) ==
    LET open == IF text[i + 1] = "(" THEN i + 1 ELSE i + 2
    IN SubSeq(text, open + 1, MatchEnd(text, i) - 1)

\* The targets of the non-overlapping matches from position i on, left to
\* right
RECURSIVE TargetsFrom(_, _)
TargetsFrom(text, i) ==
    IF i > Len(text) THEN <<>>
    ELSE IF MatchEnd(text, i) = 0 THEN TargetsFrom(text, i + 1)
         ELSE <<TargetAt(text, i)>>
                  \o TargetsFrom(text, MatchEnd(text, i) + 1)

\* The links get_all_links_in_text reported, in the order of its notices
Reported ==
    LET notices == SelectSeq(Appended(hist.begin, self),
                             LAMBDA e : e.kind = "+ link")
    IN [k \in 1..Len(notices) |-> notices[k].dst]

\* C13: for a line outside a code block, get_all_links_in_text reports, for
\* each non-overlapping match of "]", an optional whitespace character, "(",
\* a target and ")", the text between that "(" and the first ")" after it,
\* left to right, also when the target holds a "(".
C13_Extraction ==
    (pc = "read" /\ ~self.inside_of_code_block) =>
        /\ Reported = TargetsFrom(line, 1)
        /\ ListSet(Get(self.articles, b_md).all_links) = ListSet(Reported)

\* A target that names a Markdown file of the directory: no slash, no
\* backslash, and ".md" as its last three characters
IsTrackedTarget(target) ==
    /\ \A k \in 1..Len(target) : target[k] \notin {"/", "\\"}
    /\ Len(target) >= 3
    /\ target[Len(target) - 2] = "."
    /\ target[Len(target) - 1] = "m"
    /\ target[Len(target)] = "d"

\* C14: when the links of the line have been sorted out, a link of
\* all_links was passed to add_link_between_articles if and only if it holds
\* no slash and no backslash and ends in ".md"; every other link is in
\* all_links only: it is in no md_links, names no article, and no article
\* but those of the tracked links and of b.md itself differs from before.
C14_TrackedClassification ==
    pc = "linked" =>
        LET all_links == Get(self.articles, b_md).all_links
            passed == {hist.calls[i].dst : i \in 1..Len(hist.calls)}
            tracked == {l \in ListSet(all_links) : IsTrackedTarget(l)}
        IN /\ all_links = Get(hist.prev.articles, b_md).all_links
           /\ passed = tracked
           /\ ListSet(Get(self.articles, b_md).md_links) = tracked
           /\ Keys(self.articles) = Keys(hist.prev.articles) \cup tracked
           /\ \A k \in Keys(hist.prev.articles) \ (tracked \cup {b_md}) :
                  Get(self.articles, k) = Get(hist.prev.articles, k)
           /\ tracked = {} => self = hist.prev

\* C14 witness: a line with a link to a new Markdown file and a link to an
\* image has been sorted out.
C14_Witness ==
    /\ pc = "linked"
    /\ InList(pic_png, Get(self.articles, b_md).all_links)
    /\ pic_png \notin Keys(self.articles)
    /\ \E i \in 1..Len(hist.calls) :
           /\ hist.calls[i].dst \notin Keys(hist.prev.articles)
           /\ hist.calls[i].dst \in Keys(self.articles)

\* The examiner the run began with holds an article without links and
\* without time stamp for each listed file, nothing else, and an empty log
BeganEmpty ==
    /\ hist.failed # "load"
    /\ hist.begin.log_archive = <<>>
    /\ hist.begin.floating_articles = <<>>
    /\ hist.begin.missing_articles = <<>>
    /\ Keys(hist.begin.articles) = {f \in Names : IsFile(f)}
    /\ \A k \in Keys(hist.begin.articles) :
           Get(hist.begin.articles, k) = Article(k, TRUE)

\* C18: a run with NOCACHE begins with an empty graph also when the control
\* file exists, reads every listed file once, ends without error, and the
\* control file is at every point of the run what it was before the run; a
\* run without NOCACHE in a directory without control file begins with an
\* empty graph, and its construction raises nothing.
C18_NoCache ==
    runs > 0 =>
        /\ "NOCACHE" \in self.flag =>
               /\ BeganEmpty
               /\ control = hist.loaded
               /\ pc = "idle" =>
                      /\ outcome = "ok"
                      /\ \A f \in Listed : hist.reads[f] = 1
        /\ ("NOCACHE" \notin self.flag /\ ~hist.loaded.saved) => BeganEmpty

\* C18 witness: a run with NOCACHE has completed where an earlier run had
\* written a control file with articles; a run without NOCACHE has been
\* constructed where there was no control file.
C18_Witness ==
    \/ /\ pc = "idle"
       /\ runs = 2
       /\ "NOCACHE" \in self.flag
       /\ CanUnpickle(hist.loaded)
       /\ hist.loaded.articles # <<>>
       /\ \E f \in Listed : Get(self.articles, f).md_links # <<>>
    \/ /\ pc = "constructed"
       /\ "NOCACHE" \notin self.flag
       /\ ~hist.loaded.saved
       /\ self.articles # <<>>

\* C19: a run without NOCACHE whose control file cannot be unpickled ends
\* in an error raised by the load: no article is made, no file is read, the
\* lists are not compiled and the control file stays as it was.
C19_CorruptIsFatal ==
    (/\ runs > 0
     /\ "NOCACHE" \notin self.flag
     /\ hist.loaded.saved
     /\ ~CanUnpickle(hist.loaded)) =>
        /\ pc = "idle"
        /\ outcome = "error"
        /\ hist.failed = "load"
        /\ self.articles = <<>>
        /\ self.log_archive = <<>>
        /\ \A f \in Names : hist.reads[f] = 0
        /\ control = hist.loaded

\* C19 witness: a run met a control file that a failed save had cut short,
\* in a directory with Markdown files.
C19_Witness ==
    /\ hist.failed = "load"
    /\ hist.loaded = Truncated
    /\ "NOCACHE" \notin self.flag
    /\ \E f \in Names : IsFile(f)

\* C20: at every point of a save, also of one that fails, the control file
\* holds a whole pickle: the one the run loaded or the one of the examiner
\* being saved.
C20_AtomicSave ==
    /\ control.saved => CanUnpickle(control)
    /\ pc \in {"saving", "dumping"} =>
           control \in {hist.loaded, Pickle(self)}

\* The run met a listed file that it had to read and could not
ReadFailed ==
    \E f \in Listed :
        /\ ReadRaises(f)
        /\ st_mtime(f) > Get(hist.begin.articles, f).last_modified

\* C21: a run in which the read of a listed, changed file failed has ended
\* in an error; the floating and missing lists are those the run began
\* with, and the control file is the one the run found.
C21_ReadFailure ==
    (pc = "idle" /\ runs > 0 /\ ~hist.dirty /\ ReadFailed) =>
        /\ outcome = "error"
        /\ self.floating_articles = hist.begin.floating_articles
        /\ self.missing_articles = hist.begin.missing_articles
        /\ control = hist.loaded

\* C21 witness: the read failed in a run that had loaded a control file,
\* after the run had emptied the lists of the article it was about to read.
C21_Witness ==
    /\ pc = "idle"
    /\ runs > 0
    /\ ~hist.dirty
    /\ ReadFailed
    /\ hist.loaded.saved
    /\ \E g \in Listed :
           /\ Get(hist.begin.articles, g).md_links # <<>>
           /\ Get(self.articles, g).md_links = <<>>

\* C23: a completed run over a directory without Markdown files, with or
\* without a control file of an earlier run, leaves floating_articles and
\* missing_articles empty.
C23_EmptyResult ==
    (Done /\ self.md_file_list = <<>>) =>
        /\ self.floating_articles = <<>>
        /\ self.missing_articles = <<>>

IsPrefix(a, b) == Len(a) <= Len(b) /\ SubSeq(b, 1, Len(a)) = a

\* C24: every step keeps the entries of the log and their order: inside a
\* run the log of the examiner only grows at its end, a run begins with the
\* log of the control file, and the log of the control file a run writes
\* begins with the log of the control file it replaces.
C24_AppendOnly ==
    [][/\ pc = "constructed" => IsPrefix(self.log_archive, self'.log_archive)
       /\ (pc = "idle" /\ control.saved) =>
              IsPrefix(control.log_archive, self'.log_archive)
       /\ control.saved =>
              /\ control'.saved
              /\ IsPrefix(control.log_archive, control'.log_archive)]_vars

\* C24 witness: a second run has written a control file whose log holds the
\* log of the first one and more than the notice of the load.
C24_Witness ==
    /\ Done
    /\ runs = 2
    /\ hist.loaded.saved
    /\ hist.loaded.log_archive # <<>>
    /\ Len(control.log_archive) > Len(hist.loaded.log_archive) + 1

\* An article as it is when it has just been made: no time stamp, no links
Blank(article) ==
    /\ article.last_modified = 0
    /\ article.all_links = <<>>
    /\ article.md_links = <<>>
    /\ article.linked_from = <<>>

\* The article of k was never made for a file: the control file held it
\* without time stamp, or did not hold it, and k is not listed now
NeverSeen(k) ==
    /\ k \notin Listed
    /\ k \in Keys(LoadedArticles) =>
           /\ Get(LoadedArticles, k).last_modified = 0
           /\ ~Get(LoadedArticles, k).has_existing_file

\* C30: the articles set_directory_path makes are blank and have a file;
\* the article add_link_between_articles makes is blank but for the linker
\* and has no file; and after a completed run an article that never was
\* made for a file has no time stamp, no all_links and no md_links.
C30_NewDocument ==
    /\ \A k \in Keys(hist.begin.articles) \ Keys(LoadedArticles) :
           /\ Blank(Get(hist.begin.articles, k))
           /\ Get(hist.begin.articles, k).has_existing_file
           /\ InList(k, hist.begin.md_file_list)
    /\ \A i \in 1..Len(hist.calls) :
           LET c == hist.calls[i]
               made == Get(add_link_between_articles(
                               c.before, c.src, c.dst, 0).articles, c.dst)
           IN (c.op = "add" /\ c.dst \notin Keys(c.before.articles)) =>
                  /\ Blank([made EXCEPT !.linked_from = <<>>])
                  /\ made.linked_from = <<c.src>>
                  /\ ~made.has_existing_file
    /\ Done =>
           \A k \in Keys(self.articles) :
               NeverSeen(k) =>
                   /\ Get(self.articles, k).last_modified = 0
                   /\ Get(self.articles, k).all_links = <<>>
                   /\ Get(self.articles, k).md_links = <<>>
                   /\ ~Get(self.articles, k).has_existing_file

\* C30 witness: a second run made an article for a link, and an article
\* that an earlier run made for a link is still there.
C30_Witness ==
    /\ Done
    /\ runs = 2
    /\ \E i \in 1..Len(hist.calls) :
           /\ hist.calls[i].op = "add"
           /\ hist.calls[i].dst \notin Keys(hist.calls[i].before.articles)
    /\ \E k \in Keys(self.articles) \cap Keys(LoadedArticles) : NeverSeen(k)

NoDuplicates(list) ==
    \A i, j \in 1..Len(list) : list[i] = list[j] => i = j

Without(list, x) == SelectSeq(list, LAMBDA e : e # x)

\* C27: after any sequence of operations on an Article no list holds an
\* entry twice; add_link and add_md_link_to returned True exactly when the
\* entry was absent, and the entry is there afterwards; remove_link
\* returned True exactly when the entry was present and otherwise left
\* all_links as it was; remove_md_link_to took away the named entry only.
C27_ListsAreSets ==
    pc = "article" =>
        LET before == hist.before
            x == hist.arg
        IN /\ NoDuplicates(self.all_links)
           /\ NoDuplicates(self.md_links)
           /\ NoDuplicates(self.linked_from)
           /\ hist.op = "add_link" =>
                  /\ hist.ret <=> ~InList(x, before.all_links)
                  /\ ListSet(self.all_links)
                         = ListSet(before.all_links) \cup {x}
           /\ hist.op = "add_md_link_to" =>
                  /\ hist.ret <=> ~InList(x, before.md_links)
                  /\ ListSet(self.md_links)
                         = ListSet(before.md_links) \cup {x}
           /\ hist.op = "add_md_link_from" =>
                  ListSet(self.linked_from)
                      = ListSet(before.linked_from) \cup {x}
           /\ hist.op = "remove_link" =>
                  /\ hist.ret <=> InList(x, before.all_links)
                  /\ self.all_links = Without(before.all_links, x)
                  /\ ~hist.ret => self.all_links = before.all_links
           /\ hist.op = "remove_md_link_to" =>
                  /\ self.md_links = Without(before.md_links, x)
                  /\ self.all_links = before.all_links
                  /\ self.linked_from = before.linked_from

\* C27 witness: an operation was refused because the entry was there, on an
\* Article whose three lists hold entries.
C27_Witness ==
    /\ pc = "article"
    /\ hist.op \in {"add_link", "add_md_link_to"}
    /\ ~hist.ret
    /\ self.all_links # <<>>
    /\ self.md_links # <<>>
    /\ self.linked_from # <<>>

\* C28: remove_md_link_from(x) returned True if and only if x was in
\* linked_from, no other entry was, and the Article has no file; in every
\* case linked_from is what it was without x.
C28_DeleteSignal ==
    (pc = "article" /\ hist.op = "remove_md_link_from") =>
        /\ hist.ret <=>
               /\ InList(hist.arg, hist.before.linked_from)
               /\ ListSet(hist.before.linked_from) \ {hist.arg} = {}
               /\ ~hist.before.has_existing_file
        /\ self.linked_from = Without(hist.before.linked_from, hist.arg)

\* C28 witness: the signal was given for an Article without file whose only
\* linker was removed.
C28_Witness ==
    /\ pc = "article"
    /\ hist.op = "remove_md_link_from"
    /\ hist.ret
    /\ hist.before.linked_from = <<hist.arg>>

\* C29: get_non_md_links returns the entries of all_links that are not in
\* md_links, in the order of all_links: it shares no entry with md_links,
\* and with md_links it covers all_links when md_links is part of
\* all_links.
C29_NonMdLinks ==
    (pc = "article" /\ hist.op = "get_non_md_links") =>
        /\ hist.ret = SelectSeq(self.all_links,
                                LAMBDA l : l \notin ListSet(self.md_links))
        /\ ListSet(hist.ret) \cap ListSet(self.md_links) = {}
        /\ ListSet(self.md_links) \subseteq ListSet(self.all_links) =>
               ListSet(hist.ret) \cup ListSet(self.md_links)
                   = ListSet(self.all_links)

\* C29 witness: the listing of an Article with a link to a Markdown file
\* and a link to an image.
C29_Witness ==
    /\ pc = "article"
    /\ hist.op = "get_non_md_links"
    /\ hist.ret = <<pic_png>>
    /\ self.md_links # <<>>
    /\ ListSet(self.md_links) \subseteq ListSet(self.all_links)

IsOption(cl_argument) == InList(Upper(cl_argument), flag_list)

\* The directories a command line asks for, in its order
Requested(args) ==
    LET paths == SelectSeq(args, LAMBDA a : ~IsOption(a))
    IN IF paths = <<>> THEN <<WorkingDirectory>> ELSE paths

\* The options a command line activates
Active(args) == {Upper(args[i]) : i \in {j \in 1..Len(args) : IsOption(args[j])}}

IsDirectory(path) == path \in Directories

\* C22: when the script has ended on a command line that names several
\* directories, one of which does not exist, that directory was reported and
\* every other directory of the command line was scanned.
C22_PerDirectory ==
    (/\ pc = "exit"
     /\ Len(Requested(hist.argv)) > 1
     /\ \E i \in 1..Len(Requested(hist.argv)) :
            ~IsDirectory(Requested(hist.argv)[i])) =>
        \A i \in 1..Len(Requested(hist.argv)) :
            LET path == Requested(hist.argv)[i]
            IN IF IsDirectory(path)
               THEN InList(path, hist.scanned)
               ELSE InList(path, hist.reported)

C26_HistoryReplay ==
    pc = "exit" =>
        \A i \in 1..Len(Requested(hist.argv)) :
            LET path == Requested(hist.argv)[i]
            IN IsDirectory(path) =>
                   /\ InList(path, hist.scanned) <=>
                          \/ "HISTORY" \notin Active(hist.argv)
                          \/ Cardinality(Active(hist.argv)) > 1
                   /\ "HISTORY" \in Active(hist.argv) =>
                          InList(path, hist.printed)

\* The calls of remove_link_between_articles(f, dest) the run made
Unlinked(f) ==
    {hist.calls[i].dst : i \in {k \in 1..Len(hist.calls) :
                                    /\ hist.calls[k].op = "remove"
                                    /\ hist.calls[k].src = f}}

\* C31: after a completed run, for every document the run read, all_links
\* holds exactly the targets its lines yield (the fence flag being false at
\* its first line), md_links exactly those of them that name local Markdown
\* files, remove_link_between_articles was called for every target of the
\* old md_links that is not in the new, and last_modified is the st_mtime
\* of the file.
C31_ReparseResult ==
    Done =>
        \A f \in Listed :
            hist.reads[f] = 1 =>
                LET before == Get(hist.begin.articles, f)
                    after == Get(self.articles, f)
                IN /\ ListSet(after.all_links) = ListSet(LinksAlone(f))
                   /\ ListSet(after.md_links)
                          = {link \in ListSet(LinksAlone(f)) :
                                 check_text_is_local_md_file_name(link)}
                   /\ ListSet(before.md_links) \ ListSet(after.md_links)
                          \subseteq Unlinked(f)
                   /\ after.last_modified = st_mtime(f)

\* The control file holds f as a document that never had a file, and the
\* directory now holds a file of that name
Materialised(f) ==
    /\ f \in Keys(LoadedArticles)
    /\ ~Get(LoadedArticles, f).has_existing_file
    /\ Get(LoadedArticles, f).last_modified = 0
    /\ IsFile(f)

\* C32: when the directory holds a file for a document that the control
\* file holds without a file and never read, set_directory_path keeps the
\* entry at its place with its linked_from and flags it as existing; the
\* completed run has read the file once and stamped the document, the
\* document is not in missing_articles, and every linker the run did not
\* read again is still in its linked_from.
C32_Materialise ==
    \A f \in Names :
        Materialised(f) =>
            /\ pc = "constructed" =>
                   /\ f \in Keys(self.articles)
                   /\ KeyIndex(self.articles, f) = KeyIndex(LoadedArticles, f)
                   /\ Get(self.articles, f)
                          = [Get(LoadedArticles, f) EXCEPT
                                 !.has_existing_file = TRUE]
            /\ Done =>
                   /\ hist.reads[f] = 1
                   /\ f \in Keys(self.articles)
                   /\ Get(self.articles, f).has_existing_file
                   /\ Get(self.articles, f).last_modified = st_mtime(f)
                   /\ st_mtime(f) > 0
                   /\ ~InList(f, self.missing_articles)
                   /\ \A x \in Inbound(LoadedArticles, f) :
                          (x \in Names /\ hist.reads[x] = 0) =>
                              x \in Inbound(self.articles, f)

\* C32 witness: a completed run over a directory in which the file of a
\* linked placeholder has appeared.
C32_Witness ==
    /\ Done
    /\ \E f \in Names :
           /\ Materialised(f)
           /\ Get(LoadedArticles, f).linked_from # <<>>
           /\ Get(self.articles, f).linked_from
                  = Get(LoadedArticles, f).linked_from

\* The positions of a line at which a fence token starts
FencePositions(text_line) ==
    {i \in 1..Len(text_line) :
         /\ i + 2 <= Len(text_line)
         /\ text_line[i] = Backquote
         /\ text_line[i + 1] = Backquote
         /\ text_line[i + 2] = Backquote}

\* C33: after get_all_links_in_text has taken a line, inside_of_code_block
\* is the opposite of what it was if a fence token starts anywhere in the
\* line, however often, and what it was otherwise; the links of the line are
\* added to all_links exactly when the flag is false after that, so the
\* links of a line that opens a block are left out and those of a line that
\* closes one are taken.
C33_FenceTransition ==
    pc = "read" =>
        LET before == hist.begin
            flipped == FencePositions(line) # {}
            found == Get(self.articles, b_md).all_links
        IN /\ self.inside_of_code_block
                  = (IF flipped THEN ~before.inside_of_code_block
                     ELSE before.inside_of_code_block)
           /\ (before.inside_of_code_block = flipped) =>
                  ListSet(found) = TargetsOf(line)
           /\ (before.inside_of_code_block # flipped) => found = <<>>

\* C33 witness: a line with two fence tokens and a link closed a block and
\* its link was taken.
C33_Witness ==
    /\ pc = "read"
    /\ Cardinality(FencePositions(line)) > 1
    /\ hist.begin.inside_of_code_block
    /\ ~self.inside_of_code_block
    /\ Get(self.articles, b_md).all_links # <<>>

\* C34: remove_link_between_articles(source, dest) appends the entry of the
\* removed link to the log whether or not dest was in the md_links of
\* source; when source is not in the linked_from of dest, the article of
\* dest stays where it is with its linked_from, nothing else is logged and
\* the call returns False, also when dest has no file and no linker.
C34_RemoveUnlinked ==
    pc = "unlinked" =>
        LET c == hist.calls[1]
            added == Appended(c.before, self)
        IN /\ Len(added) >= 1
           /\ added[1] = Entry(now, "- md_link", c.src, c.dst, 0)
           /\ c.src \in Keys(self.articles) =>
                  ~InList(c.dst, Get(self.articles, c.src).md_links)
           /\ c.src \notin Inbound(c.before.articles, c.dst) =>
                  /\ c.dst \in Keys(self.articles)
                  /\ Len(self.articles) = Len(c.before.articles)
                  /\ Get(self.articles, c.dst).linked_from
                         = Get(c.before.articles, c.dst).linked_from
                  /\ Get(self.articles, c.dst).has_existing_file
                         = Get(c.before.articles, c.dst).has_existing_file
                  /\ c.src # c.dst =>
                         Get(self.articles, c.dst)
                             = Get(c.before.articles, c.dst)
                  /\ Len(added) = 1
                  /\ c.ret = <<>>

\* C34 witness: the call for a destination without file and without
\* linkers, from another article that did not link to it.
C34_Witness ==
    /\ pc = "unlinked"
    /\ LET c == hist.calls[1]
       IN /\ c.src # c.dst
          /\ ~InList(c.dst, Get(c.before.articles, c.src).md_links)
          /\ Get(c.before.articles, c.dst).linked_from = <<>>
          /\ ~Get(c.before.articles, c.dst).has_existing_file
          /\ c.dst \in Keys(self.articles)

\* C35: after every completed run, every name in the linked_from or the
\* md_links of an article is a key of articles.
C35_ReferentialIntegrity ==
    Done =>
        \A k \in Keys(self.articles) :
            Inbound(self.articles, k) \cup Tracked(self.articles, k)
                \subseteq Keys(self.articles)

\* C36: no run ends in check_articles with a KeyError: every listed file has
\* an article when the loop over md_file_list begins, and every
\* remove_link_between_articles a run made named a source and a destination
\* that were keys of articles when it was called.
C36_NoAbsentLookup ==
    /\ hist.failed # "check"
    /\ pc = "constructed" => Listed \subseteq Keys(self.articles)
    /\ \A i \in 1..Len(hist.calls) :
           hist.calls[i].op = "remove" =>
               /\ hist.calls[i].src \in Keys(hist.calls[i].before.articles)
               /\ hist.calls[i].dst \in Keys(hist.calls[i].before.articles)

\* C36 witness: a completed second run that removed links to two
\* destinations and deleted the article of one of them.
C36_Witness ==
    /\ Done
    /\ runs = 2
    /\ \E i, j \in 1..Len(hist.calls) :
           /\ hist.calls[i].op = "remove"
           /\ hist.calls[j].op = "remove"
           /\ hist.calls[i].dst # hist.calls[j].dst
           /\ hist.calls[i].dst \notin Keys(self.articles)

\* What iterdir yields when the file system enumerates the names in order o
ListingIn(o) ==
    SelectSeq(o, IsFile)
        \o (IF hist.loaded.saved THEN <<control_file_name>> ELSE <<>>)

\* The examiner the run leaves when the files are enumerated in order o,
\* from the control file the run loaded and the directory as it is
ReconcileIn(o) ==
    Summary(check_articles(set_directory_path(NewExaminer({}), ListingIn(o),
                                              hist.loaded, 0), 0).s)

\* The articles and the two lists of an examiner, as sets
AsSets(s) ==
    [articles |->
         {[name |-> s.articles[i].name,
           has_existing_file |-> s.articles[i].has_existing_file,
           last_modified |-> s.articles[i].last_modified,
           md_links |-> ListSet(s.articles[i].md_links),
           linked_from |-> ListSet(s.articles[i].linked_from),
           all_links |-> ListSet(s.articles[i].all_links)] :
              i \in 1..Len(s.articles)},
     floating_articles |-> ListSet(s.floating_articles),
     missing_articles |-> ListSet(s.missing_articles)]

\* C37: the articles (their lists taken as sets), floating_articles and
\* missing_articles a completed run leaves are those the run leaves for
\* every other order in which the directory could have enumerated the same
\* files, from the same control file.
C37_OrderIndependence ==
    Done => \A o \in Orders : AsSets(ReconcileIn(o)) = AsSets(self)

\* The examiner a run with NOCACHE leaves over the directory as it is: no
\* control file is read, every file is parsed
FromScratch ==
    Summary(check_articles(set_directory_path(NewExaminer({"NOCACHE"}),
                                              iterdir, control, 0), 0).s)

\* C38: the floating_articles and missing_articles of every completed run,
\* after any files were written or deleted between the runs, are as sets
\* those of a run with NOCACHE over the same directory.
C38_IncrementalIsScratch ==
    Done =>
        /\ ListSet(self.floating_articles)
               = ListSet(FromScratch.floating_articles)
        /\ ListSet(self.missing_articles)
               = ListSet(FromScratch.missing_articles)

\* C39: after every completed run every name in the linked_from of an
\* article is that of an article whose file exists, so that an article all
\* of whose linkers were deleted from the directory is in floating_articles
\* or gone.
C39_InboundFromPresent ==
    Done =>
        \A k \in Keys(self.articles) :
            /\ \A x \in Inbound(self.articles, k) :
                   /\ x \in Names
                   /\ IsFile(x)
            /\ (\A x \in Linkers(self.articles, k) : ~IsFile(x)) =>
                   InList(k, self.floating_articles)

\* The links of the articles and the two lists of an examiner, as sets
GraphOf(s) ==
    [articles |->
         {[name |-> s.articles[i].name,
           has_existing_file |-> s.articles[i].has_existing_file,
           md_links |-> ListSet(s.articles[i].md_links),
           linked_from |-> ListSet(s.articles[i].linked_from),
           all_links |-> ListSet(s.articles[i].all_links)] :
              i \in 1..Len(s.articles)},
     floating_articles |-> ListSet(s.floating_articles),
     missing_articles |-> ListSet(s.missing_articles)]

\* C40: a completed run that follows a completed run, files having been
\* touched in between and nothing else, leaves the links of the articles
\* and the two lists as they were, and every "+ link" or "+ md_link" entry
\* it logged is for a link the article did not hold when the run began
\* (there is none).
C40_TouchedLog ==
    (Done /\ runs > 1) =>
        /\ GraphOf(self) = GraphOf(hist.prev)
        /\ \A i \in 1..Len(RunLog) :
               LET e == RunLog[i]
               IN /\ e.kind = "+ link" =>
                         ~InList(e.dst,
                                 Get(hist.begin.articles, e.src).all_links)
                  /\ e.kind = "+ md_link" =>
                         ~InList(e.dst,
                                 Get(hist.begin.articles, e.src).md_links)

====
